---- MODULE Spec2Model ----
(***************************************************************************)
(* WeArticle (src/main.py): the node classifier tag_type, the paragraph    *)
(* tree builder WeArticle.parse_doc with its YAML dump, load_structs and   *)
(* Paragraph.leads.  Spec is one parse_doc call on a fresh instance;       *)
(* SpecSession is a series of parse_doc / load_structs calls on one.       *)
(*                                                                         *)
(* Strings are sequences of one-character (or one-word) tokens, so that    *)
(* str.strip() is computed rather than assumed.  Paragraph objects live in *)
(* a heap (a sequence indexed by object identity); lists of paragraphs are *)
(* sequences of identities, so aliasing between the locals para / parent / *)
(* sub_paras and the tree is what it is in Python.                         *)
(***************************************************************************)
EXTENDS Integers, Sequences, FiniteSets, TLC

\* ---------------------------------------------------------------- bounds
\* longest generated document (number of children of the editor div)
MaxLen == 3
\* most calls of parse_doc / load_structs made on one WeArticle instance
MaxCalls == 2

\* ------------------------------------------------------- Python constants
\* None as the value of an object reference (para, parent, sub_paras)
Null == 0
\* None as the value of an optional string (img_url, img src)
None == "None"

\* class Type(Enum)
Type == [lead |-> 0, sub_lead |-> 1, body |-> 2, image |-> 3, empty |-> 255]

\* tag_type.HEADINGS
HEADINGS == <<"h1", "h2", "h3", "h4", "h5", "h6">>

Range(s) == {s[k] : k \in 1..Len(s)}

\* tuple.index(x): zero-based position of the first occurrence
index(s, x) == (CHOOSE k \in 1..Len(s) : s[k] = x /\ \A j \in 1..(k-1) : s[j] # x) - 1

\* s[0:n] as the set of its elements (it is only used as a name filter)
slice0(s, n) == {s[k] : k \in 1..n}

\* ------------------------------------------------------------- str.strip
Whitespace == {" "}

RECURSIVE lstrip(_)
lstrip(s) == IF s # <<>> /\ Head(s) \in Whitespace THEN lstrip(Tail(s)) ELSE s

RECURSIVE rstrip(_)
rstrip(s) ==
  IF s # <<>> /\ s[Len(s)] \in Whitespace THEN rstrip(SubSeq(s, 1, Len(s) - 1)) ELSE s

strip(s) == rstrip(lstrip(s))

\* ------------------------------------------------------------ bs4 element
\* What tag_type and parse_doc read of a child: .name, .text, .img (its src,
\* None when the tag holds no <img>), and .strong ("absent": no <strong>;
\* "alone": the first <strong> has no next and no previous sibling;
\* "with_siblings": it has one).
Tag(name, text, img, strong) ==
  [name |-> name, text |-> text, img |-> img, strong |-> strong]

Nodes ==
  { Tag("h1", <<"A">>, None, "absent"),
    Tag("h2", <<"B">>, None, "absent"),
    Tag("h4", <<"C">>, None, "absent"),
    Tag("h1", <<>>, None, "absent"),
    Tag("h2", <<" ">>, None, "absent"),
    Tag("h1", <<"A">>, "X", "absent"),
    Tag("p", <<" ", "b", " ">>, None, "with_siblings"),
    Tag("p", <<>>, None, "absent"),
    Tag("p", <<" ">>, None, "absent"),
    Tag("p", <<"S">>, None, "alone"),
    Tag("p", <<>>, "Y", "absent") }

\* the two scenario documents of the specification's section 8
DocIntro ==
  << Tag("h1", <<"Intro">>, None, "absent"),
     Tag("p", <<"hello">>, None, "absent"),
     Tag("h2", <<"Detail">>, None, "absent"),
     Tag("p", <<"Note">>, None, "alone"),
     Tag("p", <<"world">>, None, "absent"),
     Tag("p", <<>>, "X", "absent") >>

DocOrphan == << Tag("h2", <<"orphan">>, None, "absent") >>

\* the full-width comma, as one character
FullWidthComma == "U+FF0C"

\* a heading whose text is A, full-width comma, B, half-width comma, C
DocLeads == << Tag("h1", <<"A", FullWidthComma, "B", ",", "C">>, None, "absent") >>

Docs ==
  (UNION {[1..n -> Nodes] : n \in 0..MaxLen}) \cup {DocIntro, DocOrphan, DocLeads}

\* the documents parsed when one instance is used for several calls
SessionDocs ==
  { << Tag("h1", <<"A">>, None, "absent"),
       Tag("p", <<" ", "b", " ">>, None, "with_siblings"),
       Tag("p", <<"S">>, None, "alone"),
       Tag("p", <<>>, "Y", "absent") >>,
    << Tag("p", <<" ", "b", " ">>, None, "with_siblings"),
       Tag("p", <<>>, "Y", "absent"),
       Tag("h2", <<"B">>, None, "absent") >>,
    << Tag("p", <<>>, None, "absent"),
       Tag("p", <<"S">>, None, "alone") >>,
    << >> }

\* --------------------------------------------------------------- tag_type
\* faulty variant: the nearest later sibling is looked for instead
find_next_sibling(doc, k, names) ==
  LET hits == {j \in (k+1)..Len(doc) : doc[j].name \in names}
  IN  IF hits = {} THEN 0 ELSE CHOOSE j \in hits : \A m \in hits : j <= m

\* tag.find_previous_sibling(names): the nearest earlier sibling whose tag
\* name is one of names, as its position; 0 stands for None.
find_previous_sibling(doc, k, names) ==
  LET hits == {j \in 1..(k-1) : doc[j].name \in names}
  IN  IF hits = {} THEN 0 ELSE CHOOSE j \in hits : \A m \in hits : m <= j

\* faulty variant: only the first heading tag of the document is a lead
tag_type_first_heading(doc, k) ==
  LET tag == doc[k]
  IN  IF tag.img # None THEN Type.image
      ELSE IF tag.text = <<>> THEN Type.empty
      ELSE IF tag.name \in Range(HEADINGS)
        THEN IF tag.name = "h1" \/ find_previous_sibling(doc, k, Range(HEADINGS)) = 0
               THEN Type.lead
               ELSE Type.sub_lead
      ELSE IF tag.strong = "alone" THEN Type.sub_lead
      ELSE Type.body

\* faulty variant: a heading is a lead only if no earlier heading tag is as
\* strong as it or stronger
tag_type_strictly_stronger(doc, k) ==
  LET tag == doc[k]
  IN  IF tag.img # None THEN Type.image
      ELSE IF tag.text = <<>> THEN Type.empty
      ELSE IF tag.name \in Range(HEADINGS)
        THEN IF find_previous_sibling(doc, k,
                    slice0(HEADINGS, index(HEADINGS, tag.name) + 1)) = 0
               THEN Type.lead
               ELSE Type.sub_lead
      ELSE IF tag.strong = "alone" THEN Type.sub_lead
      ELSE Type.body

\* faulty variant: only h1 is a lead
tag_type_h1_only(doc, k) ==
  LET tag == doc[k]
  IN  IF tag.img # None THEN Type.image
      ELSE IF tag.text = <<>> THEN Type.empty
      ELSE IF tag.name \in Range(HEADINGS)
        THEN IF tag.name = "h1" THEN Type.lead ELSE Type.sub_lead
      ELSE IF tag.strong = "alone" THEN Type.sub_lead
      ELSE Type.body

tag_type(doc, k) ==
  LET tag == doc[k]
  IN  IF tag.img # None THEN Type.image
      ELSE IF tag.text = <<>> THEN Type.empty
      ELSE IF tag.name \in Range(HEADINGS)
        THEN IF tag.name = "h1"
                \/ find_previous_sibling(doc, k,
                       slice0(HEADINGS, index(HEADINGS, tag.name))) = 0
               THEN Type.lead
               ELSE Type.sub_lead
      ELSE IF tag.strong = "alone" THEN Type.sub_lead
      ELSE Type.body

\* -------------------------------------------------------------- Paragraph
\* Paragraph.__init__
Paragraph == [lead |-> <<>>, theme |-> <<>>, body |-> <<>>, subs |-> <<>>, img_url |-> None]

\* the character class of the pattern '[,???]' of Paragraph.leads, as the
\* source file has it
LeadDelimiters == {",", "?"}

\* re.split(pattern, s) for a pattern that is a class of single characters
RECURSIVE re_split(_, _)
re_split(delims, s) ==
  LET hits == {k \in 1..Len(s) : s[k] \in delims}
  IN  IF hits = {} THEN <<s>>
      ELSE LET k == CHOOSE j \in hits : \A m \in hits : j <= m
           IN  <<SubSeq(s, 1, k - 1)>> \o re_split(delims, SubSeq(s, k + 1, Len(s)))

\* Paragraph.leads
leads(p) == re_split(LeadDelimiters, p.lead)

\* ------------------------------------------------------------------- yaml
\* yaml.dump: a str is a scalar node tagged str, None a scalar node tagged
\* null, a list a sequence of nodes, and a Paragraph (a YAMLObject) a mapping
\* node tagged !Paragraph that holds the object's __dict__.
represent_str(v) == [tag |-> "str", value |-> v]

represent_none == [tag |-> "null", value |-> "null"]

represent_optional(v) == IF v = None THEN represent_none ELSE represent_str(v)

RECURSIVE represent_paragraph(_, _)
represent_paragraph(h, id) ==
  [tag |-> "!Paragraph",
   state |->
     [lead |-> represent_str(h[id].lead),
      theme |-> represent_str(h[id].theme),
      body |-> [k \in 1..Len(h[id].body) |-> represent_str(h[id].body[k])],
      subs |-> [k \in 1..Len(h[id].subs) |-> represent_paragraph(h, h[id].subs[k])],
      img_url |-> represent_optional(h[id].img_url)]]

\* yaml.dump(self.paras, ...)
yaml_dump(h, ids) == [k \in 1..Len(ids) |-> represent_paragraph(h, ids[k])]

\* yaml.safe_load: a scalar node gives back None or the str
construct_scalar(node) == IF node.tag = "null" THEN None ELSE node.value

RECURSIVE construct_paragraph(_, _)
RECURSIVE construct_sequence(_, _)

\* faulty variant: the mapping is not constructed deeply, the subs stay empty
construct_paragraph_shallow(h, node) ==
  LET id == Len(h) + 1
  IN  [heap |-> Append(h,
                  [lead |-> construct_scalar(node.state.lead),
                   theme |-> construct_scalar(node.state.theme),
                   body |-> [k \in 1..Len(node.state.body) |->
                               construct_scalar(node.state.body[k])],
                   subs |-> <<>>,
                   img_url |-> construct_scalar(node.state.img_url)]),
       id |-> id]

\* a !Paragraph node: a new object (cls.__new__), then its __dict__ is
\* updated from the deeply constructed mapping.  Gives the heap and the
\* identity of the new object.
construct_paragraph(h, node) ==
  LET id == Len(h) + 1
      subs == construct_sequence(Append(h, Paragraph), node.state.subs)
  IN  [heap |-> [subs.heap EXCEPT ![id] =
                  [lead |-> construct_scalar(node.state.lead),
                   theme |-> construct_scalar(node.state.theme),
                   body |-> [k \in 1..Len(node.state.body) |->
                               construct_scalar(node.state.body[k])],
                   subs |-> subs.ids,
                   img_url |-> construct_scalar(node.state.img_url)]],
       id |-> id]

\* a sequence of !Paragraph nodes: the heap and the list of new identities
construct_sequence(h, nodes) ==
  IF Len(nodes) = 0 THEN [heap |-> h, ids |-> <<>>]
  ELSE LET first == construct_paragraph(h, nodes[1])
           rest == construct_sequence(first.heap,
                     [k \in 1..(Len(nodes) - 1) |-> nodes[k + 1]])
       IN  [heap |-> rest.heap, ids |-> <<first.id>> \o rest.ids]

\* yaml.safe_load(struct)
yaml_load(h, doc) == construct_sequence(h, doc)

\* a structure file: absent, or holding a YAML document
NoFile == [exists |-> FALSE, doc |-> <<>>]

File(doc) == [exists |-> TRUE, doc |-> doc]

\* a structure file left by an earlier run of the program
OldFile ==
  File(yaml_dump(
         << [Paragraph EXCEPT !.lead = <<"Old">>, !.body = << <<"o">> >>,
                              !.subs = <<2>>, !.img_url = "u1"],
            [Paragraph EXCEPT !.lead = <<"Sub">>] >>,
         <<1>>))

\* ------------------------------------------------------------- upload_img
\* URLs the image host may answer with
Urls == {"u1", "u2"}

\* upload_img(src) either returns (a URL, or None when the upload is refused)
\* or raises (cache_img returned None after a failed download, and
\* open(None, 'rb') raises TypeError).
upload_img ==
  {[kind |-> "return", value |-> u] : u \in Urls \cup {None}}
    \cup {[kind |-> "raise", value |-> None]}

VARIABLES
  children,      \* editor.children: the document, fixed for the pass
  idx,           \* number of children the for loop has taken so far
  heap,          \* Paragraph objects by identity (1..Len(heap))
  paras,         \* self.paras: identities of the top-level paragraphs
  para,          \* local para      (Null or an identity)
  parent,        \* local parent    (Null or an identity)
  sub_paras,     \* local sub_paras (Null, or the identity of the paragraph
                 \*                  whose subs list it is)
  pc,            \* "loop", "done" (parse_doc returned), "raised"
  exc,           \* the exception that left parse_doc, None if none
  upload_calls,  \* history: the upload_img calls made in this pass, with
                 \* their outcome
  dump,          \* the dump argument of the parse_doc call
  structs,       \* the structure file (tmp/structs.yaml)
  calls,         \* number of parse_doc / load_structs calls made so far
  entry          \* history: heap and self.paras when the current call began

vars ==
  <<children, idx, heap, paras, para, parent, sub_paras, pc, exc, upload_calls,
    dump, structs, calls, entry>>

\* what a step inside the loop of parse_doc leaves alone
call_vars == <<children, dump, structs, calls, entry>>

\* the state of one parse pass as a value
State ==
  [heap |-> heap, paras |-> paras, para |-> para, parent |-> parent,
   sub_paras |-> sub_paras, pc |-> pc, exc |-> exc, upload_calls |-> upload_calls]

\* WeArticle.__init__ (self.paras = []) and the locals at the top of parse_doc
InitState ==
  [heap |-> <<>>, paras |-> <<>>, para |-> Null, parent |-> Null,
   sub_paras |-> Null, pc |-> "loop", exc |-> None, upload_calls |-> <<>>]

\* faulty variant: the cursor of the previous call is still there
parse_doc_entry_keep_cursor(st) ==
  [st EXCEPT !.pc = "loop", !.exc = None, !.upload_calls = <<>>]

\* entering parse_doc: para = parent = sub_paras = None
parse_doc_entry(st) ==
  [st EXCEPT !.para = Null, !.parent = Null, !.sub_paras = Null,
             !.pc = "loop", !.exc = None, !.upload_calls = <<>>]

\* ------------------------------------------------- the match statement
\* case Type.lead
case_lead(st, text) ==
  LET id == Len(st.heap) + 1
  IN  [st EXCEPT !.heap = Append(@, [Paragraph EXCEPT !.lead = text]),
                 !.paras = Append(@, id),
                 !.parent = id,
                 !.para = id,
                 !.sub_paras = id]

\* faulty variant: the new sub-paragraph's own subs becomes the append target
case_sub_lead_nesting(st, text) ==
  LET id == Len(st.heap) + 1
  IN  IF st.sub_paras = Null
        THEN [st EXCEPT !.heap = Append(@, Paragraph), !.para = id,
                        !.pc = "raised", !.exc = "AttributeError"]
        ELSE [st EXCEPT !.heap = Append([@ EXCEPT ![st.sub_paras].subs = Append(@, id)],
                                        [Paragraph EXCEPT !.lead = text]),
                        !.para = id,
                        !.sub_paras = id]

\* faulty variant: the sub-paragraph is created but para stays on the old target
case_sub_lead_keep_target(st, text) ==
  LET id == Len(st.heap) + 1
  IN  IF st.sub_paras = Null
        THEN [st EXCEPT !.heap = Append(@, Paragraph), !.para = id,
                        !.pc = "raised", !.exc = "AttributeError"]
        ELSE [st EXCEPT !.heap = Append([@ EXCEPT ![st.sub_paras].subs = Append(@, id)],
                                        [Paragraph EXCEPT !.lead = text])]

\* case Type.sub_lead: para = Paragraph(); sub_paras.append(para);
\* para.lead = text.  sub_paras.append raises AttributeError when sub_paras
\* is None.
case_sub_lead(st, text) ==
  LET id == Len(st.heap) + 1
  IN  IF st.sub_paras = Null
        THEN [st EXCEPT !.heap = Append(@, Paragraph), !.para = id,
                        !.pc = "raised", !.exc = "AttributeError"]
        ELSE [st EXCEPT !.heap = Append([@ EXCEPT ![st.sub_paras].subs = Append(@, id)],
                                        [Paragraph EXCEPT !.lead = text]),
                        !.para = id]

\* faulty variant: the image is uploaded before the target is looked at
case_image_upload_first(st, src, out) ==
  LET called == [st EXCEPT !.upload_calls = Append(@, [src |-> src, out |-> out])]
  IN  IF out.kind = "raise"
        THEN [called EXCEPT !.pc = "raised", !.exc = "TypeError"]
      ELSE IF st.para = Null THEN called
      ELSE [called EXCEPT !.heap[st.para].img_url = out.value]

\* case Type.image if para: para.img_url = self.upload_img(child.img['src'])
\* (only called with para set; out is what upload_img does this time)
case_image(st, src, out) ==
  IF st.para = Null THEN st
  ELSE LET called == [st EXCEPT !.upload_calls = Append(@, [src |-> src, out |-> out])]
       IN  IF out.kind = "raise"
             THEN [called EXCEPT !.pc = "raised", !.exc = "TypeError"]
             ELSE [called EXCEPT !.heap[st.para].img_url = out.value]

\* faulty variant: the line is put in front of the body
case_body_prepend(st, text) ==
  IF st.para = Null THEN st
  ELSE [st EXCEPT !.heap[st.para].body = <<text>> \o @]

\* case Type.body if para: para.body.append(text)
case_body(st, text) ==
  IF st.para = Null THEN st
  ELSE [st EXCEPT !.heap[st.para].body = Append(@, text)]

\* one iteration of "for child in editor.children" on child k of doc
Step(st, doc, k, out) ==
  LET text == strip(doc[k].text)
      tag == tag_type(doc, k)
  IN  IF tag = Type.lead THEN case_lead(st, text)
      ELSE IF tag = Type.sub_lead THEN case_sub_lead(st, text)
      ELSE IF tag = Type.image THEN case_image(st, doc[k].img, out)
      ELSE IF tag = Type.body THEN case_body(st, text)
      ELSE st

\* the pass over the first n children of doc, upload_img behaving as in outs
\* (the j-th call gets outs[j])
RECURSIVE Run(_, _, _)
Run(doc, n, outs) ==
  IF n = 0 THEN InitState
  ELSE LET prev == Run(doc, n - 1, outs)
           j == Len(prev.upload_calls) + 1
           out == IF j <= Len(outs) THEN outs[j] ELSE [kind |-> "return", value |-> None]
       IN  IF prev.pc # "loop" THEN prev ELSE Step(prev, doc, n, out)

\* ----------------------------------------------------------------- actions
Assign(st) ==
  /\ heap' = st.heap
  /\ paras' = st.paras
  /\ para' = st.para
  /\ parent' = st.parent
  /\ sub_paras' = st.sub_paras
  /\ pc' = st.pc
  /\ exc' = st.exc
  /\ upload_calls' = st.upload_calls

\* the loop takes child idx+1 and its classification is role
Taking(role) ==
  /\ pc = "loop"
  /\ idx < Len(children)
  /\ tag_type(children, idx + 1) = role

Init ==
  /\ children \in Docs
  /\ idx = 0
  /\ heap = InitState.heap
  /\ paras = InitState.paras
  /\ para = InitState.para
  /\ parent = InitState.parent
  /\ sub_paras = InitState.sub_paras
  /\ pc = InitState.pc
  /\ exc = InitState.exc
  /\ upload_calls = InitState.upload_calls
  /\ dump \in BOOLEAN
  /\ structs = NoFile
  /\ calls = 1
  /\ entry = [heap |-> InitState.heap, paras |-> InitState.paras]

ParseLead ==
  /\ Taking(Type.lead)
  /\ Assign(case_lead(State, strip(children[idx + 1].text)))
  /\ idx' = idx + 1
  /\ UNCHANGED call_vars

ParseSubLead ==
  /\ Taking(Type.sub_lead)
  /\ Assign(case_sub_lead(State, strip(children[idx + 1].text)))
  /\ idx' = idx + 1
  /\ UNCHANGED call_vars

ParseImage ==
  /\ Taking(Type.image)
  /\ \E out \in upload_img :
       /\ para = Null => out = [kind |-> "return", value |-> None]
       /\ Assign(case_image(State, children[idx + 1].img, out))
  /\ idx' = idx + 1
  /\ UNCHANGED call_vars

ParseBody ==
  /\ Taking(Type.body)
  /\ Assign(case_body(State, strip(children[idx + 1].text)))
  /\ idx' = idx + 1
  /\ UNCHANGED call_vars

ParseEmpty ==
  /\ Taking(Type.empty)
  /\ idx' = idx + 1
  /\ UNCHANGED <<heap, paras, para, parent, sub_paras, pc, exc, upload_calls>>
  /\ UNCHANGED call_vars

\* the children are exhausted: self.paras is dumped to the structure file
\* if dump is set, and parse_doc returns
ParseEnd ==
  /\ pc = "loop"
  /\ idx = Len(children)
  /\ pc' = "done"
  /\ structs' = IF dump THEN File(yaml_dump(heap, paras)) ELSE structs
  /\ UNCHANGED <<children, idx, heap, paras, para, parent, sub_paras, exc, upload_calls>>
  /\ UNCHANGED <<dump, calls, entry>>

Next ==
  \/ ParseLead
  \/ ParseSubLead
  \/ ParseImage
  \/ ParseBody
  \/ ParseEmpty
  \/ ParseEnd

Spec == Init /\ [][Next]_vars

\* -------------------------------------------- several calls on one instance
\* after WeArticle.__init__: no call made yet, self.paras = []
SessionInit ==
  /\ children = <<>>
  /\ idx = 0
  /\ heap = InitState.heap
  /\ paras = InitState.paras
  /\ para = Null
  /\ parent = Null
  /\ sub_paras = Null
  /\ pc = "idle"
  /\ exc = None
  /\ upload_calls = <<>>
  /\ dump = FALSE
  /\ structs \in {NoFile, OldFile}
  /\ calls = 0
  /\ entry = [heap |-> InitState.heap, paras |-> InitState.paras]

\* article.parse_doc(link, dump) is called.  The sessions explored: the first
\* parse_doc call is given any document; a further parse_doc call is made,
\* with a session document, when the instance has so far parsed session
\* documents only.
CallParseDoc ==
  /\ pc # "loop"
  /\ calls < MaxCalls
  /\ children \in SessionDocs
  /\ children' \in (IF calls = 0 THEN Docs \cup SessionDocs ELSE SessionDocs)
  /\ dump' \in BOOLEAN
  /\ idx' = 0
  /\ Assign(parse_doc_entry(State))
  /\ calls' = calls + 1
  /\ entry' = [heap |-> heap, paras |-> paras]
  /\ UNCHANGED structs

\* article.load_structs(struct_file): open raises when the file is missing,
\* else self.paras = yaml.safe_load(struct)
LoadStructs ==
  /\ pc # "loop"
  /\ calls < MaxCalls
  /\ calls' = calls + 1
  /\ entry' = [heap |-> heap, paras |-> paras]
  /\ IF structs.exists
       THEN LET loaded == yaml_load(heap, structs.doc)
            IN  /\ heap' = loaded.heap
                /\ paras' = loaded.ids
                /\ pc' = "loaded"
                /\ exc' = None
       ELSE /\ pc' = "raised"
            /\ exc' = "FileNotFoundError"
            /\ UNCHANGED <<heap, paras>>
  /\ UNCHANGED <<children, idx, para, parent, sub_paras, upload_calls, dump, structs>>

SessionNext ==
  \/ CallParseDoc
  \/ LoadStructs
  \/ ParseLead
  \/ ParseSubLead
  \/ ParseImage
  \/ ParseBody
  \/ ParseEmpty
  \/ ParseEnd

SpecSession == SessionInit /\ [][SessionNext]_vars

\* ------------------------------------------------------------------- views
\* the paragraph reachable from identity id, as a nested value
RECURSIVE Tree(_)
Tree(id) ==
  [lead |-> heap[id].lead,
   body |-> heap[id].body,
   subs |-> [k \in 1..Len(heap[id].subs) |-> Tree(heap[id].subs[k])],
   img_url |-> heap[id].img_url]

\* self.paras as a nested value
Top == [k \in 1..Len(paras) |-> Tree(paras[k])]

TypeOK ==
  /\ children \in Docs \cup SessionDocs
  /\ idx \in 0..Len(children)
  /\ pc \in {"idle", "loop", "done", "raised", "loaded"}
  /\ exc \in {None, "AttributeError", "TypeError", "FileNotFoundError"}
  /\ dump \in BOOLEAN
  /\ structs.exists \in BOOLEAN
  /\ calls \in 0..MaxCalls
  /\ para \in 0..Len(heap)
  /\ parent \in 0..Len(heap)
  /\ sub_paras \in 0..Len(heap)
  /\ \A k \in 1..Len(paras) : paras[k] \in 1..Len(heap)

\* ------------------------------------------------------------ claim helpers
\* parse_doc has left the loop, by returning or by an exception
Finished == pc # "loop"

\* the classification of the k-th child of the document being parsed
Role(k) == tag_type(children, k)

\* positions of the children taken so far that satisfy a role
Taken(role) == {k \in 1..idx : Role(k) = role}

\* position of the first lead-role child taken, idx + 1 when there is none
FirstLead ==
  IF Taken(Type.lead) = {} THEN idx + 1
  ELSE CHOOSE k \in Taken(Type.lead) : \A m \in Taken(Type.lead) : k <= m

\* result of the j-th upload_img call as seen by parse_doc: the returned
\* value, None when the call raised
Uploaded(j) == IF upload_calls[j].out.kind = "return" THEN upload_calls[j].out.value ELSE None

P(lead, body, subs, img_url) ==
  [lead |-> lead, body |-> body, subs |-> subs, img_url |-> img_url]

\* ---------------------------------------------------------------------- C1
\* C1 (as stated): parsing DocIntro yields one top-level paragraph "Intro"
\* with body ["hello"] whose subs are "Detail" (holding "world" and the
\* image) followed by "Note" (empty).
C1_Original ==
  (children = DocIntro /\ pc = "done") =>
    Top = << P(<<"Intro">>, << <<"hello">> >>,
               << P(<<"Detail">>, << <<"world">> >>, <<>>, Uploaded(1)),
                  P(<<"Note">>, <<>>, <<>>, None) >>,
               None) >>

\* C1 (amended): parsing DocIntro from an empty paragraph list yields one
\* top-level paragraph "Intro" with body ["hello"] whose subs are "Detail"
\* (empty body, no image) followed by "Note", which holds "world" and the
\* value upload_img gave for X (None when the upload was refused or the
\* call raised).
C1_IntroScenario ==
  (children = DocIntro /\ Finished) =>
    /\ Len(upload_calls) = 1
    /\ upload_calls[1].src = "X"
    /\ Top = << P(<<"Intro">>, << <<"hello">> >>,
                  << P(<<"Detail">>, <<>>, <<>>, None),
                     P(<<"Note">>, << <<"world">> >>, <<>>, Uploaded(1)) >>,
                  None) >>

C1_Witness ==
  /\ children = DocIntro
  /\ pc = "done"
  /\ Len(upload_calls) = 1
  /\ Uploaded(1) \in Urls

\* ---------------------------------------------------------------------- C2
\* C2: a sub_lead child taken while no top-level paragraph exists (parent is
\* None) is dropped: no paragraph is created, nothing is raised, cursor and
\* paragraph list stay as they are, and the loop goes on.
C2_OrphanSubLeadDropped ==
  [][(Taking(Type.sub_lead) /\ parent = Null) =>
       /\ pc' = "loop"
       /\ exc' = None
       /\ idx' = idx + 1
       /\ UNCHANGED <<heap, paras, para, parent, sub_paras>>]_vars

\* ---------------------------------------------------------------------- C3
NoHeadingNode(doc) == \A k \in 1..Len(doc) : doc[k].name \notin Range(HEADINGS)

\* C3: for a document without any h1..h6 child the pass completes and the
\* top-level paragraph list is empty.
C3_NoHeadingYieldsEmpty ==
  (NoHeadingNode(children) /\ Finished) => (pc = "done" /\ paras = <<>>)

\* ---------------------------------------------------------------------- C4
\* C4: an image child taken while the target paragraph already has an
\* img_url leaves that img_url as it was.
C4_FirstImageKept ==
  [][(Taking(Type.image) /\ para # Null /\ heap[para].img_url # None) =>
       heap'[para].img_url = heap[para].img_url]_vars

\* ---------------------------------------------------------------------- C5
\* C5: when upload_img fails for an image child (the download fails, or the
\* upload is refused), the target's img_url stays unset, nothing is raised
\* and the loop goes on with the next child.
C5_FailedImageDoesNotAbort ==
  [][(/\ Taking(Type.image)
      /\ para # Null
      /\ heap[para].img_url = None
      /\ Len(upload_calls') = Len(upload_calls) + 1
      /\ upload_calls'[Len(upload_calls')].out \notin
           {[kind |-> "return", value |-> u] : u \in Urls}) =>
       /\ pc' = "loop"
       /\ exc' = None
       /\ idx' = idx + 1
       /\ heap'[para].img_url = None]_vars

\* ---------------------------------------------------------------------- C6
\* C6: after any prefix of the pass the tree is two levels deep: every
\* paragraph held in the subs of a top-level paragraph has empty subs.
C6_TwoLevels ==
  \A t \in 1..Len(paras) :
    \A j \in 1..Len(heap[paras[t]].subs) :
      heap[heap[paras[t]].subs[j]].subs = <<>>

C6_Witness ==
  /\ pc = "done"
  /\ Len(paras) = 1
  /\ Len(heap[paras[1]].subs) = 2

\* ---------------------------------------------------------------------- C7
RECURSIVE BodyLines(_)
\* number of body lines held by the paragraphs 1..n of the heap
BodyLines(n) == IF n = 0 THEN 0 ELSE BodyLines(n - 1) + Len(heap[n].body)

\* C7: body and image children taken before the first lead child leave no
\* trace: while no lead has been taken there is no paragraph in self.paras,
\* no body line, no img_url and no upload_img call; afterwards the body
\* lines and the upload_img calls are exactly those of the body and image
\* children that follow the first lead.
C7_PreambleDropped ==
  /\ Taken(Type.lead) = {} =>
       /\ paras = <<>>
       /\ upload_calls = <<>>
       /\ \A id \in 1..Len(heap) : heap[id].body = <<>> /\ heap[id].img_url = None
  /\ BodyLines(Len(heap)) = Cardinality({k \in Taken(Type.body) : k > FirstLead})
  /\ Len(upload_calls) = Cardinality({k \in Taken(Type.image) : k > FirstLead})

C7_Witness ==
  /\ pc = "done"
  /\ Taken(Type.lead) # {}
  /\ \E k \in Taken(Type.body) : k < FirstLead
  /\ \E k \in Taken(Type.image) : k < FirstLead

\* ---------------------------------------------------------------------- C8
\* level of a heading tag name: 1 (strongest) .. 6 (weakest)
Level(name) == index(HEADINGS, name) + 1

\* positions of the heading tags of a document
HeadingTags(doc) == {k \in 1..Len(doc) : doc[k].name \in Range(HEADINGS)}

\* position of the strongest heading tag of a document that has one
Strongest(doc) ==
  CHOOSE r \in HeadingTags(doc) :
    \A k \in HeadingTags(doc) :
      \/ Level(doc[r].name) < Level(doc[k].name)
      \/ Level(doc[r].name) = Level(doc[k].name) /\ r <= k

\* The heading tags of doc all carry text and no image; up to the strongest
\* one they come in strictly increasing strength, and every heading tag after
\* it is weaker than it.
IncreasingThenWeaker(doc) ==
  /\ HeadingTags(doc) # {}
  /\ \A k \in HeadingTags(doc) : doc[k].img = None /\ doc[k].text # <<>>
  /\ LET r == Strongest(doc)
     IN  /\ \A j, k \in HeadingTags(doc) :
               (j < k /\ k <= r) => Level(doc[j].name) > Level(doc[k].name)
         /\ \A k \in HeadingTags(doc) :
               k > r => Level(doc[k].name) > Level(doc[r].name)

\* the stripped texts of the children at the positions of s that lie in
\* lo..hi, in document order
RECURSIVE TextsAt(_, _, _)
TextsAt(s, lo, hi) ==
  IF hi < lo THEN <<>>
  ELSE IF hi \in s THEN Append(TextsAt(s, lo, hi - 1), strip(children[hi].text))
  ELSE TextsAt(s, lo, hi - 1)

\* the leads of the paragraphs whose identities are listed in ids
LeadsOf(ids) == [j \in 1..Len(ids) |-> heap[ids[j]].lead]

\* C8 (as stated): such a document yields exactly one top-level paragraph,
\* and every weaker heading is a sub-paragraph of it.
C8_Original ==
  (IncreasingThenWeaker(children) /\ pc = "done") =>
    /\ Len(paras) = 1
    /\ \A k \in HeadingTags(children) :
         k > Strongest(children) =>
           \E j \in 1..Len(heap[paras[1]].subs) :
             heap[heap[paras[1]].subs[j]].lead = strip(children[k].text)

\* C8 (amended): in such a document every heading of the increasing run is a
\* lead and gets a top-level paragraph of its own (as many top-level
\* paragraphs as the run has headings); the headings after the strongest one
\* are sub_leads and are, with the bold-only paragraphs, the subs of the last
\* top-level paragraph, in document order.
C8_RunOfLeads ==
  IncreasingThenWeaker(children) =>
    LET r == Strongest(children)
        run == {k \in HeadingTags(children) : k <= r}
        weaker == {k \in HeadingTags(children) : k > r}
    IN  /\ \A k \in run : Role(k) = Type.lead
        /\ \A k \in weaker : Role(k) = Type.sub_lead
        /\ LeadsOf(paras) = TextsAt(run, 1, idx)
        /\ idx >= r =>
             /\ weaker \cap (1..idx) \subseteq Taken(Type.sub_lead)
             /\ LeadsOf(heap[paras[Len(paras)]].subs) =
                  TextsAt(Taken(Type.sub_lead), r + 1, idx)

C8_Witness ==
  /\ IncreasingThenWeaker(children)
  /\ pc = "done"
  /\ Len(paras) = 2
  /\ Len(heap[paras[2]].subs) = 1
  /\ children[3].name \in Range(HEADINGS)

\* ---------------------------------------------------------------------- C9
\* C9 (as stated): parsing [h2("orphan")] yields an empty top-level list.
C9_Original ==
  (children = DocOrphan /\ pc = "done") => paras = <<>>

\* C9 (amended): parsing [h2("orphan")] completes and yields one top-level
\* paragraph whose lead is "orphan", with empty body, no subs and no image:
\* an h2 with no h1 before it is a lead.
C9_OrphanIsLead ==
  (children = DocOrphan /\ Finished) =>
    /\ pc = "done"
    /\ Top = << P(<<"orphan">>, <<>>, <<>>, None) >>

C9_Witness ==
  /\ children = DocOrphan
  /\ pc = "done"
  /\ Len(paras) = 1

\* --------------------------------------------------------------------- C10
\* what upload_img did at each call so far
Outcomes == [j \in 1..Len(upload_calls) |-> upload_calls[j].out]

\* what a pass has built: the paragraphs, the cursor, the exception raised
\* and the upload_img calls made
Built(st) ==
  [heap |-> st.heap, paras |-> st.paras, para |-> st.para, parent |-> st.parent,
   sub_paras |-> st.sub_paras, exc |-> st.exc, upload_calls |-> st.upload_calls]

\* C10: no lookahead.  The document cut off after the children taken so far
\* gives each of these children the role it has in the whole document, and
\* the pass over the cut-off document (upload_img answering alike) builds
\* exactly what the parse of the whole document has built by now.  Two
\* documents that agree up to a child are both compared with the same
\* cut-off document, so they agree with each other.
C10_NoLookahead ==
  LET prefix == SubSeq(children, 1, idx)
  IN  /\ \A k \in 1..idx : tag_type(prefix, k) = tag_type(children, k)
      /\ Built(Run(prefix, idx, Outcomes)) = Built(State)

\* a weaker heading has been taken and a stronger heading tag follows it
C10_Witness ==
  /\ idx >= 1
  /\ idx < Len(children)
  /\ children[idx].name = "h2"
  /\ Role(idx) = Type.lead
  /\ children[idx + 1].name = "h1"
  /\ paras # <<>>

\* --------------------------------------------------------------------- C13
\* the children of doc that tag_type treats as headings: a heading tag with
\* text and without image
HeadingNodes(doc) ==
  {k \in HeadingTags(doc) : doc[k].img = None /\ doc[k].text # <<>>}

\* C13: a heading with text and without image is a lead when it is an h1 or
\* when no heading tag of a stronger level (1..k-1) is among its earlier
\* siblings, and a sub_lead otherwise.
C13_HeadingRole ==
  \A k \in HeadingNodes(children) :
    LET lv == Level(children[k].name)
        stronger == {j \in 1..(k-1) : \E l \in 1..(lv-1) : children[j].name = HEADINGS[l]}
    IN  /\ lv = 1 => Role(k) = Type.lead
        /\ lv > 1 => (Role(k) = Type.lead <=> stronger = {})
        /\ Role(k) \in {Type.lead, Type.sub_lead}

\* an h1 followed directly by an h4, both taken: the h4 is a sub-paragraph
C13_Witness ==
  /\ pc = "done"
  /\ Len(children) = 3
  /\ children[1] = Tag("h1", <<"A">>, None, "absent")
  /\ children[2] = Tag("h4", <<"C">>, None, "absent")
  /\ children[3] = Tag("h2", <<"B">>, None, "absent")
  /\ Len(paras) = 1
  /\ LeadsOf(heap[paras[1]].subs) = << <<"C">>, <<"B">> >>

\* --------------------------------------------------------------------- C14
\* C14 (as stated): after the first heading a heading is a lead only if it
\* is strictly stronger than every heading before it (read for the headings
\* below h1, an h1 being a lead by the rule of C13).
C14_Original ==
  \A k \in HeadingNodes(children) :
    (Role(k) = Type.lead /\ children[k].name # "h1") =>
      \A j \in HeadingNodes(children) :
        j < k => Level(children[k].name) < Level(children[j].name)

\* the strongest level among the heading tags before child k, 7 if none
StrongestBefore(doc, k) ==
  LET before == {Level(doc[j].name) : j \in {i \in HeadingTags(doc) : i < k}}
  IN  IF before = {} THEN 7 ELSE CHOOSE l \in before : \A m \in before : l <= m

\* C14 (amended): the first heading is a lead, and after it a heading is a
\* lead exactly when it is at least as strong as every heading tag before it
\* (so a second h2 after a first h2 with no h1 is a lead again and opens a new
\* top-level paragraph); it is a sub_lead exactly when some earlier heading
\* tag is strictly stronger.
C14_AtLeastAsStrong ==
  /\ \A k \in HeadingNodes(children) :
       IF Level(children[k].name) <= StrongestBefore(children, k)
         THEN Role(k) = Type.lead
         ELSE Role(k) = Type.sub_lead
  /\ Len(paras) = Cardinality({k \in HeadingNodes(children) :
                     k <= idx /\ Level(children[k].name) <= StrongestBefore(children, k)})

\* a second h2 after a first h2, no h1: two top-level paragraphs
C14_Witness ==
  /\ pc = "done"
  /\ Len(children) = 2
  /\ children[1] = Tag("h2", <<"B">>, None, "absent")
  /\ children[2] = Tag("h2", <<"B">>, None, "absent")
  /\ Len(paras) = 2

\* --------------------------------------------------------------------- C15
\* C15: a child without image whose text is empty after trimming changes
\* nothing when it is taken: no paragraph, no cursor move, no body line.
C15_BlankNodeIgnored ==
  [][(/\ pc = "loop"
      /\ idx < Len(children)
      /\ children[idx + 1].img = None
      /\ strip(children[idx + 1].text) = <<>>) =>
       /\ Role(idx + 1) = Type.empty
       /\ pc' = "loop"
       /\ UNCHANGED <<heap, paras, para, parent, sub_paras>>]_vars

\* --------------------------------------------------------------------- C16
\* the last element of a non-empty sequence
Last(s) == s[Len(s)]

\* C16: once a lead has been taken, parent is the last top-level paragraph,
\* sub_paras is that paragraph's subs, and para is parent while it has no
\* sub-paragraph and its last sub-paragraph otherwise; taking a sub_lead
\* leaves parent and sub_paras as they are.
C16_CursorConsistent ==
  /\ [](Taken(Type.lead) # {} =>
          /\ paras # <<>>
          /\ parent = Last(paras)
          /\ sub_paras = parent
          /\ para = IF heap[parent].subs = <<>> THEN parent ELSE Last(heap[parent].subs))
  /\ [][Taking(Type.sub_lead) => (parent' = parent /\ sub_paras' = sub_paras)]_vars

\* two sub_leads have followed the last lead
C16_Witness ==
  /\ Taken(Type.lead) # {}
  /\ Len(heap[parent].subs) = 2
  /\ para = Last(heap[parent].subs)
  /\ para # parent

\* --------------------------------------------------------------------- C17
\* every place of the tree: the top-level list, then each paragraph's subs
RECURSIVE Places(_)
Places(n) == IF n = 0 THEN paras ELSE Places(n - 1) \o heap[n].subs

\* C17: a step that creates a paragraph changes no lead, body or img_url of
\* an existing paragraph, and any other step changes those of the most
\* recently created paragraph only; the only subs that ever change are those
\* of the last top-level paragraph, in a step that creates no top-level
\* paragraph; and no paragraph is at two places of the tree.
C17_NoRevisit ==
  /\ [](\A i, j \in 1..Len(Places(Len(heap))) :
          Places(Len(heap))[i] = Places(Len(heap))[j] => i = j)
  /\ [][\A id \in 1..Len(heap) :
          /\ heap'[id].lead = heap[id].lead
          /\ (id < Len(heap) \/ Len(heap') > Len(heap)) =>
               /\ heap'[id].body = heap[id].body
               /\ heap'[id].img_url = heap[id].img_url
          /\ heap'[id].subs # heap[id].subs =>
               /\ paras # <<>>
               /\ id = Last(paras)
               /\ paras' = paras]_vars

\* an earlier paragraph holds a body line and a later top-level paragraph
\* has begun
C17_Witness ==
  /\ pc = "done"
  /\ Len(paras) = 2
  /\ heap[paras[1]].body # <<>>

\* --------------------------------------------------------------------- C18
\* positions of the children taken so far that create a paragraph
Creators == Taken(Type.lead) \cup Taken(Type.sub_lead)

\* the position of the n-th creator
NthCreator(n) ==
  CHOOSE k \in Creators : Cardinality({j \in Creators : j <= k}) = n

\* C18: the top-level list holds one paragraph per lead taken, in document
\* order; the n-th paragraph created comes from the n-th lead or sub_lead
\* taken, and its body is the trimmed texts of the body children taken
\* between that child and the next lead or sub_lead, in document order.
C18_DocumentOrder ==
  /\ LeadsOf(paras) = TextsAt(Taken(Type.lead), 1, idx)
  /\ Len(heap) = Cardinality(Creators)
  /\ \A n \in 1..Len(heap) :
       LET from == NthCreator(n)
           upto == IF n < Len(heap) THEN NthCreator(n + 1) - 1 ELSE idx
       IN  heap[n].body = TextsAt(Taken(Type.body), from + 1, upto)

\* two different body lines under one paragraph
C18_Witness ==
  /\ pc = "done"
  /\ \E id \in 1..Len(heap) :
       /\ Len(heap[id].body) = 2
       /\ heap[id].body[1] # heap[id].body[2]

\* --------------------------------------------------------------------- C11
\* C11: for the paragraph whose lead is A, full-width comma, B, half-width
\* comma, C, leads is ["A", "B", "C"].
C11_LeadsSplitOnBothCommas ==
  (children = DocLeads /\ pc = "done") =>
    /\ Len(paras) = 1
    /\ leads(heap[paras[1]]) = << <<"A">>, <<"B">>, <<"C">> >>

InParseDoc == pc \in {"loop", "done"} \/ (pc = "raised" /\ exc # "FileNotFoundError")

\* C19: throughout a parse_doc call the paragraphs self.paras held when the
\* call began stay in place as a prefix, unchanged like every other object
\* of that time; one paragraph is appended per lead taken; and the cursor is
\* None or on a paragraph created in this call.  load_structs leaves none of
\* the earlier paragraphs in self.paras: the list is the file's content.
C19_ParseDocAppendsOnly ==
  /\ [](InParseDoc =>
          /\ Len(paras) = Len(entry.paras) + Cardinality(Taken(Type.lead))
          /\ SubSeq(paras, 1, Len(entry.paras)) = entry.paras
          /\ \A id \in 1..Len(entry.heap) : heap[id] = entry.heap[id]
          /\ \A c \in {para, parent, sub_paras} : c = Null \/ c > Len(entry.heap))
  /\ [][pc' = "loaded" =>
          /\ \A k \in 1..Len(paras') : paras'[k] > Len(heap)
          /\ yaml_dump(heap', paras') = structs.doc]_vars

\* a second document, with a body and an image before its first lead, has
\* been parsed on an instance that already held a paragraph
C19_Witness ==
  /\ pc = "done"
  /\ entry.paras # <<>>
  /\ Len(paras) = Len(entry.paras) + 1
  /\ Role(1) = Type.body
  /\ Role(2) = Type.image

====
